---- MODULE Spec2Model ----
(***************************************************************************)
(* FreeRoot: the two variants of the sandbox-root manager,                 *)
(*   src/freeroot.py            (variant "freeroot")                       *)
(*   src/direct_use_freeroot.py (variant "direct")                         *)
(* modelled as one state machine over an abstract file system.  One action *)
(* per public method; a method is one atomic step of the single caller.    *)
(*                                                                         *)
(* A method body is evaluated over a "machine" record m (file system,      *)
(* events of the call so far, processes handed to subprocess.run, printed  *)
(* exit codes, pending exception, return value, os.environ and the env     *)
(* mapping of the caller).  Every statement maps a                         *)
(* machine to the SET of machines the environment allows (a download, an   *)
(* extraction or a file operation may succeed or fail); Then() sequences   *)
(* statements and lets a pending exception skip the rest.                  *)
(*                                                                         *)
(* Paths are strings; the roots considered do not end in a separator.      *)
(* The failure model is the one of the specification: downloads, archive   *)
(* extraction, directory creation, chmod and file writes may fail;         *)
(* recursive deletion (shutil.rmtree) removes the tree.                    *)
(*                                                                         *)
(* Four specifications:                                                    *)
(*   Spec      the public methods called in any order on one root;         *)
(*   SpecPure  __init__ and _download_file on their own, over every        *)
(*             machine value and every sequence of attempt outcomes;       *)
(*   SpecEnv   run_command on an installed root, over every process        *)
(*             environment and env argument;                               *)
(*   SpecConc  several callers inside run_command at once on an installed  *)
(*             root, statement by statement.                               *)
(***************************************************************************)
EXTENDS Integers, Sequences, FiniteSets, TLC

\* variant  which of the two source files the instance comes from
\* fs       the file system
\* lastOp   the method called last, args its arguments
\* result   how that call ended: exception, return value, printed exit codes
\* trace    the events of that call, in order
\* spawns   what that call handed to subprocess.run for the engine
\* hist     whether a cleanup() or failed install() has happened
\* environ  os.environ of the calling process
\* overlay  the env mapping of the caller, as it is after the call
\* obj      the attributes __init__ has set
\* download the last call of _download_file on its own: inputs and outcome
\* calls    the run_command() calls in flight: for each caller its position
\*          in the method and the machine of its call
VARIABLES variant, fs, lastOp, args, result, trace, spawns, hist,
          environ, overlay, obj, download, calls

vars == <<variant, fs, lastOp, args, result, trace, spawns, hist,
          environ, overlay, obj, download, calls>>

Variants == {"freeroot", "direct"}

(***************************************************************************)
(* Bounds and program constants                                            *)
(***************************************************************************)
MaxExit == 2          \* exit statuses 0..MaxExit
MaxSignal == 1        \* statuses -MaxSignal..-1 (child killed by a signal)
MaxCallers == 2       \* callers that run run_command() at the same time

MaxRetriesFreeroot == 5
MaxRetriesDirect == 3

ExitCodes == (0 - MaxSignal)..MaxExit

\* what a launched process can do: its exit status and what it wrote
ProcessBehaviours ==
    { [code |-> 0, out |-> "sentinel\n", err |-> ""],
      [code |-> 0, out |-> "", err |-> "warning\n"] }
    \cup { [code |-> c, out |-> "partial\n", err |-> "boom\n"] : c \in ExitCodes \ {0} }

\* the sandbox root of the instance (rootfs_dir)
rootfs_dir == "/home/u/rootfs"

(***************************************************************************)
(* Python values that end up in an argument vector                         *)
(***************************************************************************)
PyStr(s) == [t |-> "str", s |-> s, l |-> << >>]
PyList(l) == [t |-> "list", s |-> "", l |-> l]
PyNone == [t |-> "none", s |-> "", l |-> << >>]

\* a list of str as a Python list of PyStr
StrList(l) == [i \in 1..Len(l) |-> PyStr(l[i])]

\* os.path.join(a, b) for a not ending in "/" and b relative
PathJoin(a, b) == a \o "/" \o b

proot_path == PathJoin(PathJoin(PathJoin(PathJoin(rootfs_dir, "usr"), "local"), "bin"), "proot")
installed_flag == PathJoin(rootfs_dir, ".installed")

(***************************************************************************)
(* The file system: what exists under (and next to) the sandbox root       *)
(***************************************************************************)
Contents == {"none", "empty", "full"}

\* root      the root directory exists
\* user      a file that was in the root directory before any install()
\* extracted how much of the base archive is unpacked under the root
\* engine    usr/local/bin/proot: absent, zero bytes, or the binary
\* exec      the engine has its executable bit
\* resolv    etc/resolv.conf has been written
\* flag      the .installed file exists
\* temp      the temporary archive file of _extract_rootfs (outside the root)
FsStates ==
    [root : BOOLEAN, user : BOOLEAN, extracted : {"none", "partial", "full"},
     engine : Contents, exec : BOOLEAN, resolv : BOOLEAN, flag : BOOLEAN,
     temp : Contents]

EmptyFs ==
    [root |-> FALSE, user |-> FALSE, extracted |-> "none", engine |-> "none",
     exec |-> FALSE, resolv |-> FALSE, flag |-> FALSE, temp |-> "none"]

\* shutil.rmtree(rootfs_dir): everything under the root goes, the temp file
\* lives elsewhere
rmtree(f) == [EmptyFs EXCEPT !.temp = f.temp]

\* the install state: the part of the file system the manager owns
InstallState(f) ==
    [root |-> f.root, extracted |-> f.extracted, engine |-> f.engine,
     exec |-> f.exec, resolv |-> f.resolv, flag |-> f.flag]

(***************************************************************************)
(* Machines                                                                *)
(***************************************************************************)
NoExc == [type |-> "none", msg |-> "", code |-> 0, stderr |-> ""]
Exc(type, msg) == [type |-> type, msg |-> msg, code |-> 0, stderr |-> ""]

\* environment mappings: functions from variable names to values
EnvKeys == {"HOME", "PATH"}
EnvValues == {"/a", "/b"}
EnvMaps == UNION { [D -> EnvValues] : D \in SUBSET EnvKeys }

\* the env argument: None (also the default), or a dict
NoEnv == [given |-> FALSE, d |-> << >>]
EnvDict(d) == [given |-> TRUE, d |-> d]
Overlays == { NoEnv } \cup { EnvDict(d) : d \in EnvMaps }

\* the environment of the processes in the runs that do not vary it
HostEnviron == [k \in EnvKeys |-> "/a"]

\* a call starts with the file system f, in the process environment
Machine(f) ==
    [fs |-> f, trace |-> << >>, spawns |-> << >>, log |-> << >>,
     exc |-> NoExc, ret |-> "", environ |-> environ, overlay |-> NoEnv]

Ev(m, e) == [m EXCEPT !.trace = Append(@, e)]
Raise(m, type, msg) == [m EXCEPT !.exc = Exc(type, msg)]
Failed(m) == m.exc.type # "none"

\* statement sequencing: F runs on every machine without a pending exception
Then(S, F(_)) == UNION { IF Failed(m) THEN {m} ELSE F(m) : m \in S }

(***************************************************************************)
(* __init__                                                                *)
(***************************************************************************)
\* values platform.machine() can give
MachineValues == {"x86_64", "aarch64", "armv7l", "i686", ""}

\* no attribute set yet
NoObj == [built |-> FALSE, arch |-> "", arch_alt |-> "",
          proot_url |-> "", ubuntu_url |-> ""]

\* variant of construct for C15: every machine that is not x86_64 is taken
\* for an arm64 one
construct_else_arm64(v, m, a) ==
    LET alt == IF a = "x86_64" THEN "amd64" ELSE "arm64"
    IN  [m |-> m,
         obj |-> [built |-> TRUE, arch |-> a, arch_alt |-> alt,
                  proot_url |-> "https://raw.githubusercontent.com/foxytouxxx/freeroot/main/proot-" \o a,
                  ubuntu_url |-> "http://cdimage.ubuntu.com/ubuntu-base/releases/20.04/release/ubuntu-base-20.04.4-base-" \o alt \o ".tar.gz"]]

\* __init__ with platform.machine() = a, called on machine m: the machine
\* it leaves and the attributes it has set
construct(v, m, a) ==
    IF a \in {"x86_64", "aarch64"}
    THEN LET alt == IF a = "x86_64" THEN "amd64" ELSE "arm64"
         IN  [m |-> m,
              obj |-> [built |-> TRUE, arch |-> a, arch_alt |-> alt,
                       proot_url |-> "https://raw.githubusercontent.com/foxytouxxx/freeroot/main/proot-" \o a,
                       ubuntu_url |-> "http://cdimage.ubuntu.com/ubuntu-base/releases/20.04/release/ubuntu-base-20.04.4-base-" \o alt \o ".tar.gz"]]
    ELSE [m |-> Raise(m, "RuntimeError", "Unsupported CPU architecture: " \o a),
          obj |-> [NoObj EXCEPT !.arch = a]]

(***************************************************************************)
(* _download_file                                                          *)
(***************************************************************************)
\* what one download attempt can do
AttemptOutcomes == {"exc", "empty", "data"}

\* n failing attempts of kind k, then payloads
Script(n, k, len) == [i \in 1..len |-> IF i <= n THEN k ELSE "data"]

max_retries(v) == IF v = "freeroot" THEN MaxRetriesFreeroot ELSE MaxRetriesDirect

\* the network behaviours install() is run against
Scripts(v) ==
    { Script(n, k, max_retries(v)) : n \in 0..max_retries(v), k \in {"exc", "empty"} }

\* freeroot.py: while retries < max_retries; urlretrieve into target_path,
\* success only when the file is non-empty
RECURSIVE download_loop_freeroot(_, _, _, _)
download_loop_freeroot(script, retries, file, max) ==
    IF retries < max
    THEN LET o == script[retries + 1] IN
         IF o = "exc"
         THEN download_loop_freeroot(script, retries + 1, file, max)
         ELSE IF o = "data"
         THEN [val |-> "True", file |-> "full", attempts |-> retries + 1]
         ELSE download_loop_freeroot(script, retries + 1, "empty", max)
    ELSE [val |-> "False", file |-> file, attempts |-> retries]

\* direct_use_freeroot.py with return_data=True: for i in range(max_retries);
\* the first response that is read is returned, whatever its length
RECURSIVE download_loop_direct(_, _, _)
download_loop_direct(script, i, max) ==
    IF i < max
    THEN LET o == script[i + 1] IN
         IF o = "exc"
         THEN download_loop_direct(script, i + 1, max)
         ELSE [val |-> IF o = "data" THEN "data" ELSE "empty",
               file |-> "none", attempts |-> i + 1]
    ELSE [val |-> "None", file |-> "none", attempts |-> i]

\* direct_use_freeroot.py with a target_path: urlretrieve, then return True
\* whatever the size of the file (makedirs is inside the try as well)
RECURSIVE download_loop_direct_path(_, _, _, _)
download_loop_direct_path(script, i, file, max) ==
    IF i < max
    THEN LET o == script[i + 1] IN
         IF o = "exc"
         THEN download_loop_direct_path(script, i + 1, file, max)
         ELSE [val |-> "True", file |-> IF o = "data" THEN "full" ELSE "empty",
               attempts |-> i + 1]
    ELSE [val |-> "False", file |-> file, attempts |-> i]

\* how _download_file is called: into target_path, or (direct_use_freeroot.py)
\* with return_data=True
DownloadModes(v) == IF v = "freeroot" THEN {"path"} ELSE {"path", "data"}

\* no call yet
NoDownload ==
    [called |-> FALSE, mode |-> "path", script |-> << >>, max |-> 0,
     val |-> "None", file |-> "none", attempts |-> 0]

\* file is the content of target_path before the call
download_file(v, script, file, max) ==
    IF v = "freeroot"
    THEN download_loop_freeroot(script, 0, file, max)
    ELSE download_loop_direct(script, 0, max)

\* _download_file(url, target_path, max_retries=max) or, with mode "data",
\* _download_file(url, return_data=True, max_retries=max)
download_file_mode(v, mode, script, file, max) ==
    IF v = "direct" /\ mode = "path"
    THEN download_loop_direct_path(script, 0, file, max)
    ELSE download_file(v, script, file, max)

\* Python truthiness of what _download_file returns
Falsy(val) == val \in {"False", "None", "empty"}

(***************************************************************************)
(* File operations that may fail                                           *)
(***************************************************************************)
\* os.makedirs(<a directory at or below the root>, exist_ok=True)
makedirs(m) ==
    { [m EXCEPT !.fs.root = TRUE], Raise(m, "OSError", "makedirs") }

\* variant of chmod for C4: the mode is written back without S_IEXEC
chmod_noexec(m) ==
    { Ev(m, "chmod"), Raise(Ev(m, "chmod"), "OSError", "chmod") }

\* os.chmod(proot_path, mode | S_IEXEC)
chmod(m) ==
    { [Ev(m, "chmod") EXCEPT !.fs.exec = TRUE],
      Raise(Ev(m, "chmod"), "OSError", "chmod") }

\* with open(resolv_conf, "w") as f: f.write(...)
write_resolv(m) ==
    { [Ev(m, "write_resolv") EXCEPT !.fs.resolv = TRUE],
      Raise(Ev(m, "write_resolv"), "OSError", "resolv.conf") }

\* with open(installed_flag, "w") ...
write_flag(m) ==
    { [Ev(m, "write_flag") EXCEPT !.fs.flag = TRUE],
      Raise(Ev(m, "write_flag"), "OSError", ".installed") }

(***************************************************************************)
(* src/freeroot.py: _extract_rootfs, _setup_proot, _configure_rootfs       *)
(***************************************************************************)
\* urlretrieve(ubuntu_url, temp_path) with retries
fetch_archive_freeroot(m) ==
    { LET d == download_file("freeroot", s, m.fs.temp, MaxRetriesFreeroot)
          m1 == [Ev(m, "fetch_archive") EXCEPT !.fs.temp = d.file]
      IN  IF Falsy(d.val)
          THEN Raise(m1, "RuntimeError", "Failed to download Ubuntu rootfs")
          ELSE m1
      : s \in Scripts("freeroot") }

\* subprocess.run(["tar", "-xf", temp_path, "-C", rootfs_dir], check=True)
tar_extract_freeroot(m) ==
    { [Ev(m, "extract") EXCEPT !.fs.extracted = "full"],
      [Raise(Ev(m, "extract"), "CalledProcessError", "tar")
         EXCEPT !.fs.extracted = IF @ = "full" THEN "full" ELSE "partial"] }

\* variant of extract_rootfs_freeroot for C20: the temporary file is unlinked
\* after the body instead of in a finally clause
extract_rootfs_freeroot_nofinally(m) ==
    LET m0 == [m EXCEPT !.fs.temp = "empty"]
        body == Then(Then(fetch_archive_freeroot(m0), makedirs),
                     tar_extract_freeroot)
    IN  { IF Failed(b) THEN b ELSE [b EXCEPT !.fs.temp = "none"] : b \in body }

\* try: download, makedirs, tar   finally: unlink the temporary file
extract_rootfs_freeroot(m) ==
    LET m0 == [m EXCEPT !.fs.temp = "empty"]
        body == Then(Then(fetch_archive_freeroot(m0), makedirs),
                     tar_extract_freeroot)
    IN  { [b EXCEPT !.fs.temp = "none"] : b \in body }

\* urlretrieve(proot_url, proot_path) with retries
fetch_engine_freeroot(m) ==
    { LET d == download_file("freeroot", s, m.fs.engine, MaxRetriesFreeroot)
          m1 == [Ev(m, "fetch_engine") EXCEPT !.fs.engine = d.file]
      IN  IF Falsy(d.val)
          THEN Raise(m1, "RuntimeError", "Failed to download PRoot binary")
          ELSE m1
      : s \in Scripts("freeroot") }

setup_proot_freeroot(m) ==
    Then(Then(makedirs(m), fetch_engine_freeroot), chmod)

\* resolv.conf, then the flag
configure_rootfs_freeroot(m) ==
    Then(write_resolv(m), write_flag)

(***************************************************************************)
(* src/direct_use_freeroot.py: _setup_proot, _extract_rootfs,              *)
(* _configure_rootfs                                                       *)
(***************************************************************************)
\* open(proot_path, 'wb'); f.write(data)
write_engine_direct(m) ==
    { [Ev(m, "write_engine") EXCEPT !.fs.engine = "full"],
      [Raise(Ev(m, "write_engine"), "OSError", "proot")
         EXCEPT !.fs.engine = "empty", !.fs.exec = FALSE] }

fetch_engine_direct(m) ==
    { LET d == download_file("direct", s, "none", MaxRetriesDirect)
          m1 == Ev(m, "fetch_engine")
      IN  IF Falsy(d.val)
          THEN Raise(m1, "RuntimeError", "Failed to download PRoot")
          ELSE m1
      : s \in Scripts("direct") }

setup_proot_direct(m) ==
    Then(Then(Then(fetch_engine_direct(m), makedirs), write_engine_direct),
         chmod)

fetch_archive_direct(m) ==
    { LET d == download_file("direct", s, "none", MaxRetriesDirect)
          m1 == Ev(m, "fetch_archive")
      IN  IF Falsy(d.val)
          THEN Raise(m1, "RuntimeError", "Failed to download Ubuntu")
          ELSE m1
      : s \in Scripts("direct") }

\* tarfile.open(fileobj=..., mode='r:gz').extractall(path=rootfs_dir)
tar_extract_direct(m) ==
    { [Ev(m, "extract") EXCEPT !.fs.extracted = "full"],
      [Raise(Ev(m, "extract"), "TarError", "extractall")
         EXCEPT !.fs.extracted = IF @ = "full" THEN "full" ELSE "partial"] }

extract_rootfs_direct(m) ==
    Then(Then(fetch_archive_direct(m), makedirs), tar_extract_direct)

\* the write of resolv.conf is inside try/except: a failure is printed as a
\* warning and the method returns normally
write_resolv_direct(m) ==
    { IF Failed(w) THEN [Ev(w, "warning") EXCEPT !.exc = NoExc] ELSE w
      : w \in write_resolv(m) }

configure_rootfs_direct(m) ==
    Then(makedirs(m), write_resolv_direct)

(***************************************************************************)
(* install                                                                 *)
(***************************************************************************)
\* variant of IsInstalled for C3: the flag is never found
IsInstalled_never(f) == FALSE

\* os.path.exists(self.installed_flag)
IsInstalled(f) == f.flag

\* except Exception: if os.path.exists(rootfs_dir): rmtree(...); raise
cleanup_on_failure(m) ==
    IF Failed(m) /\ m.fs.root
    THEN [Ev(m, "rmtree") EXCEPT !.fs = rmtree(m.fs)]
    ELSE m

install_freeroot(m) ==
    { cleanup_on_failure(t) :
        t \in Then(Then(extract_rootfs_freeroot(m), setup_proot_freeroot),
                   configure_rootfs_freeroot) }

install_direct(m) ==
    Then(Then(Then(setup_proot_direct(m), extract_rootfs_direct),
              configure_rootfs_direct), write_flag)

\* every call of install() leaves the event "install"; with the flag present
\* it returns at once
install(v, m) ==
    LET m0 == Ev(m, "install") IN
    IF IsInstalled(m0.fs)
    THEN { m0 }
    ELSE IF v = "freeroot" THEN install_freeroot(m0) ELSE install_direct(m0)

\* variant of cleanup for C11: only an installed root is removed
cleanup_if_installed(v, m) ==
    IF m.fs.flag
    THEN { [Ev(m, "rmtree") EXCEPT !.fs = rmtree(m.fs)] }
    ELSE { m }

\* cleanup(): if os.path.exists(rootfs_dir): shutil.rmtree(rootfs_dir)
cleanup(v, m) ==
    IF m.fs.root
    THEN { [Ev(m, "rmtree") EXCEPT !.fs = rmtree(m.fs)] }
    ELSE { m }

(***************************************************************************)
(* Launching the engine                                                    *)
(***************************************************************************)
\* a parameter the caller did not pass
Omitted == [t |-> "omitted", s |-> "", l |-> << >>]

\* bool(x) for the values above
Truthy(x) == (x.t = "str" /\ x.s # "") \/ (x.t = "list" /\ x.l # << >>)

\* the working_dir parameter as the method body sees it:
\* freeroot.py has working_dir="/root", direct_use_freeroot.py has
\* working_dir=None and uses (working_dir or "/root")
working_dir_arg(v, wd) ==
    IF v = "freeroot"
    THEN IF wd = Omitted THEN PyStr("/root") ELSE wd
    ELSE LET p == IF wd = Omitted THEN PyNone ELSE wd
         IN  IF Truthy(p) THEN p ELSE PyStr("/root")

\* the source of the DNS bind
resolv_bind(v) ==
    IF v = "freeroot"
    THEN PathJoin(rootfs_dir, "etc/resolv.conf") \o ":/etc/resolv.conf"
    ELSE rootfs_dir \o "/etc/resolv.conf:/etc/resolv.conf"

\* variant of proot_cmd for C9: the bind of /proc is missing
proot_cmd_noproc(v, w) ==
    << PyStr(proot_path), PyStr("--rootfs=" \o rootfs_dir),
       PyStr("-0"), PyStr("-w"), w,
       PyStr("-b"), PyStr("/dev"), PyStr("-b"), PyStr("/sys"),
       PyStr("-b"), PyStr(resolv_bind(v)),
       PyStr("--kill-on-exit") >>

\* the fixed part of the argument vector; w is what follows -w
proot_cmd(v, w) ==
    << PyStr(proot_path), PyStr("--rootfs=" \o rootfs_dir),
       PyStr("-0"), PyStr("-w"), w,
       PyStr("-b"), PyStr("/dev"), PyStr("-b"), PyStr("/sys"),
       PyStr("-b"), PyStr("/proc"),
       PyStr("-b"), PyStr(resolv_bind(v)),
       PyStr("--kill-on-exit") >>

\* the command vector appended by run_command:
\* freeroot.py wraps a str in ["bash", "-c", command] and appends a list as
\* it is; direct_use_freeroot.py always appends "bash", "-c", command
command_vector(v, command) ==
    IF v = "freeroot"
    THEN IF command.t = "str"
         THEN << PyStr("bash"), PyStr("-c"), command >>
         ELSE StrList(command.l)
    ELSE << PyStr("bash"), PyStr("-c"), command >>

SpawnRec(argv, launched, code, out, err, env) ==
    [argv |-> argv, launched |-> launched, exit |-> code,
     stdout |-> out, stderr |-> err, env |-> env]

AddSpawn(m, r) == [Ev(m, "spawn") EXCEPT !.spawns = Append(@, r)]

\* variant of check_returncode for C8: only positive codes are failures
check_returncode_positive(code) == code > 0

\* check=True: CalledProcessError for every non-zero return code
check_returncode(code) == code # 0

\* subprocess.run(argv, ...): a non-str element is a TypeError before any
\* process exists; the exec can fail (OSError), and does when the engine is
\* missing or not executable; otherwise the process runs and exits.
\* capture: stdout/stderr=PIPE (captured) or inherited (nothing captured)
\* env is the environment handed over (os.environ when none is passed)
subprocess_run(m, argv, check, capture, env) ==
    IF \E i \in 1..Len(argv) : argv[i].t # "str"
    THEN { Raise(AddSpawn(m, SpawnRec(argv, FALSE, 0, "", "", env)),
                 "TypeError", "expected str") }
    ELSE { Raise(AddSpawn(m, SpawnRec(argv, FALSE, 0, "", "", env)),
                 "OSError", "exec") }
         \cup
         IF m.fs.engine = "full" /\ m.fs.exec
         THEN { LET o == IF capture THEN p.out ELSE ""
                    e == IF capture THEN p.err ELSE ""
                    m1 == AddSpawn(m, SpawnRec(argv, TRUE, p.code, o, e, env))
                IN  IF check /\ check_returncode(p.code)
                    THEN [m1 EXCEPT !.exc =
                            [type |-> "CalledProcessError", msg |-> "",
                             code |-> p.code, stderr |-> e]]
                    ELSE [m1 EXCEPT !.ret = o]
                : p \in ProcessBehaviours }
         ELSE { }

\* except subprocess.CalledProcessError as e: print the code (and stderr)
print_exit_code(m) ==
    IF m.exc.type = "CalledProcessError"
    THEN [m EXCEPT !.log = Append(@, m.exc.code)]
    ELSE m

NotInstalledError(m) ==
    Raise(m, "RuntimeError", "FreeRoot is not installed. Run install() first.")

\* variant of ensure_installed for C5: freeroot.py installs lazily as well
ensure_installed_lazy(v, m) ==
    IF IsInstalled(m.fs) THEN { m } ELSE install(v, m)

\* variant of ensure_installed for C6: direct_use_freeroot.py calls
\* install() without looking at the flag
ensure_installed_always(v, m) ==
    IF v = "freeroot"
    THEN IF IsInstalled(m.fs) THEN { m } ELSE { NotInstalledError(m) }
    ELSE install(v, m)

\* variant of ensure_installed for C21: direct_use_freeroot.py runs the
\* steps of install() without looking at the flag
ensure_installed_unchecked(v, m) ==
    IF v = "freeroot"
    THEN IF IsInstalled(m.fs) THEN { m } ELSE { NotInstalledError(m) }
    ELSE install_direct(Ev(m, "install"))

\* if not os.path.exists(self.installed_flag): ...
\* freeroot.py raises, direct_use_freeroot.py calls install()
ensure_installed(v, m) ==
    IF IsInstalled(m.fs)
    THEN { m }
    ELSE IF v = "freeroot" THEN { NotInstalledError(m) } ELSE install(v, m)

(***************************************************************************)
(* run_command, clone_repo, start_shell                                    *)
(***************************************************************************)
\* dict.update: the keys of o get o's values, the other keys stay
update(e, o) ==
    [k \in DOMAIN e \cup DOMAIN o |-> IF k \in DOMAIN o THEN o[k] ELSE e[k]]

\* variant of merge_environ for C14: a given overlay replaces os.environ
merge_environ_replace(m, env) ==
    [child |-> IF env.given /\ DOMAIN env.d # {} THEN env.d ELSE m.environ,
     environ |-> m.environ,
     overlay |-> env]

\* environ = os.environ.copy(); if env: environ.update(env)
\* child is the local dict, environ and overlay the two objects of the caller
merge_environ(m, env) ==
    [child |-> IF env.given /\ DOMAIN env.d # {}
               THEN update(m.environ, env.d)
               ELSE m.environ,
     environ |-> m.environ,
     overlay |-> env]

\* the first statement of run_command: the look at the flag
run_command_check(v, m, env) ==
    ensure_installed(v, [m EXCEPT !.overlay = env])

\* the rest of run_command: argument vector, environment, subprocess.run,
\* and the except clause that prints and re-raises
run_command_launch(v, a, command, wd, env) ==
    LET full_cmd == proot_cmd(v, working_dir_arg(v, wd)) \o command_vector(v, command)
        e == merge_environ(a, env)
        a1 == [a EXCEPT !.environ = e.environ, !.overlay = e.overlay]
    IN  { print_exit_code(r) : r \in subprocess_run(a1, full_cmd, TRUE, TRUE, e.child) }

run_command(v, m, command, wd, env) ==
    LET launch(a) == run_command_launch(v, a, command, wd, env)
    IN  Then(run_command_check(v, m, env), launch)

\* repository URLs: <dir>/<name> or <dir>/<name>.git (name without ".git")
UrlText(u) == u.dir \o "/" \o u.name \o (IF u.git THEN ".git" ELSE "")

\* repo_url.split('/')[-1] without the ".git"
repo_name(v, u) == u.name

git_check_cmd == "which git >/dev/null 2>&1 || (apt-get update && apt-get install -y git)"

\* f"git clone {repo_url}" [+ " --branch {branch}"] [+ " {target_dir}"];
\* direct_use_freeroot.py always appends the target directory
clone_cmd(v, u, target_dir, branch) ==
    LET c1 == "git clone " \o UrlText(u)
        c2 == IF Truthy(branch) THEN c1 \o " --branch " \o branch.s ELSE c1
    IN  IF v = "freeroot"
        THEN IF Truthy(target_dir) THEN c2 \o " " \o target_dir.s ELSE c2
        ELSE c2 \o " " \o (IF target_dir = PyNone THEN repo_name(v, u) ELSE target_dir.s)

clone_repo(v, m, u, target_dir, branch) ==
    LET run_clone(a) == run_command(v, a, PyStr(clone_cmd(v, u, target_dir, branch)), Omitted, NoEnv)
        run_check(a) == run_command(v, a, PyStr(git_check_cmd), Omitted, NoEnv)
    IN  IF v = "freeroot"
        THEN IF IsInstalled(m.fs)
             THEN Then(run_check(m), run_clone)
             ELSE { NotInstalledError(m) }
        ELSE run_clone(m)

\* freeroot.py: check=True, a CalledProcessError is printed and swallowed;
\* direct_use_freeroot.py: subprocess.run(cmd), the return code is ignored
start_shell(v, m) ==
    LET cmd == proot_cmd(v, PyStr("/root")) \o << PyStr("bash") >>
        launch(a) ==
            { IF r.exc.type = "CalledProcessError"
              THEN [print_exit_code(r) EXCEPT !.exc = NoExc]
              ELSE [r EXCEPT !.ret = ""]
              : r \in subprocess_run(a, cmd, v = "freeroot", FALSE, a.environ) }
    IN  Then(ensure_installed(v, m), launch)

(***************************************************************************)
(* The state machine                                                       *)
(***************************************************************************)
Commands == { PyStr("echo sentinel"), PyList(<< "ls", "-l" >>) }
WorkingDirs == { Omitted, PyNone, PyStr("/tmp") }
Urls == { [dir |-> "https://h/o", name |-> "repo", git |-> TRUE] }
TargetDirs == { PyNone, PyStr("dst") }
Branches == { PyNone, PyStr("dev") }

\* did this call run install() and see it fail
InstallFailedIn(m) ==
    /\ Failed(m)
    /\ \E i \in 1..Len(m.trace) : m.trace[i] = "install"
    /\ \A i \in 1..Len(m.trace) : m.trace[i] # "spawn"

\* "fresh" until a cleanup() or a failed install(), then "dirty"; "rebuilt"
\* once an install() whose steps all succeeded has run from a dirty state
NextHist(h, op, f, m) ==
    IF op = "cleanup" \/ InstallFailedIn(m) THEN "dirty"
    ELSE IF h = "dirty" /\ ~f.flag /\ m.fs.flag
            /\ ~(\E i \in 1..Len(m.trace) : m.trace[i] = "warning")
         THEN "rebuilt"
    ELSE h

NoArgs == [command |-> PyNone, wd |-> Omitted, env |-> NoEnv]

\* what the return of a call leaves for the caller to see
Publish(op, a, m) ==
    /\ fs' = m.fs
    /\ lastOp' = op
    /\ args' = a
    /\ result' = [exc |-> m.exc, ret |-> m.ret, log |-> m.log]
    /\ trace' = m.trace
    /\ spawns' = m.spawns
    /\ hist' = NextHist(hist, op, fs, m)
    /\ environ' = m.environ
    /\ overlay' = m.overlay

\* callers, and a caller that is not inside run_command()
Callers == 1..MaxCallers
Idle ==
    [pc |-> "idle", command |-> PyNone,
     m |-> [Machine(EmptyFs) EXCEPT !.environ = HostEnviron]]
NoCalls == [t \in Callers |-> Idle]

\* a method called by the only caller runs from entry to return
Commit(op, a, m) ==
    /\ Publish(op, a, m)
    /\ UNCHANGED << variant, obj, download, calls >>

\* the state after construction: nothing installed; the root directory may
\* already exist and hold a file of the user
Init ==
    /\ variant \in Variants
    /\ \E pre \in BOOLEAN : fs = [EmptyFs EXCEPT !.root = pre, !.user = pre]
    /\ lastOp = "none"
    /\ args = NoArgs
    /\ result = [exc |-> NoExc, ret |-> "", log |-> << >>]
    /\ trace = << >>
    /\ spawns = << >>
    /\ hist = "fresh"
    /\ environ = HostEnviron
    /\ overlay = NoEnv
    /\ obj = construct(variant, Machine(EmptyFs), "x86_64").obj
    /\ download = NoDownload
    /\ calls = NoCalls

Install == \E m \in install(variant, Machine(fs)) : Commit("install", NoArgs, m)

RunCommand ==
    \E c \in Commands, wd \in WorkingDirs :
        \E m \in run_command(variant, Machine(fs), c, wd, NoEnv) :
            Commit("run", [command |-> c, wd |-> wd, env |-> NoEnv], m)

CloneRepo ==
    \E u \in Urls, t \in TargetDirs, b \in Branches :
        \E m \in clone_repo(variant, Machine(fs), u, t, b) : Commit("clone", [command |-> PyStr(clone_cmd(variant, u, t, b)), wd |-> Omitted, env |-> NoEnv], m)

StartShell == \E m \in start_shell(variant, Machine(fs)) : Commit("shell", NoArgs, m)

Cleanup == \E m \in cleanup(variant, Machine(fs)) : Commit("cleanup", NoArgs, m)

Next == Install \/ RunCommand \/ CloneRepo \/ StartShell \/ Cleanup

Spec == Init /\ [][Next]_vars

(***************************************************************************)
(* The constructor and _download_file on their own: one construction with  *)
(* every machine value, one download against every sequence of attempt     *)
(* outcomes                                                                *)
(***************************************************************************)
AllScripts(v) == [1..max_retries(v) -> AttemptOutcomes]

InitPure ==
    /\ variant \in Variants
    /\ fs = EmptyFs
    /\ lastOp = "none"
    /\ args = NoArgs
    /\ result = [exc |-> NoExc, ret |-> "", log |-> << >>]
    /\ trace = << >>
    /\ spawns = << >>
    /\ hist = "fresh"
    /\ environ = HostEnviron
    /\ overlay = NoEnv
    /\ obj = NoObj
    /\ download = NoDownload
    /\ calls = NoCalls

Construct ==
    /\ lastOp # "construct"
    /\ ~obj.built
    /\ \E a \in MachineValues :
         LET c == construct(variant, Machine(fs), a) IN
         /\ obj' = c.obj
         /\ fs' = c.m.fs
         /\ lastOp' = "construct"
         /\ result' = [exc |-> c.m.exc, ret |-> c.m.ret, log |-> c.m.log]
         /\ trace' = c.m.trace
         /\ spawns' = c.m.spawns
         /\ UNCHANGED << variant, args, hist, environ, overlay, download, calls >>

Download ==
    /\ ~download.called
    /\ \E mode \in DownloadModes(variant), max \in 0..max_retries(variant),
          script \in AllScripts(variant) :
         LET d == download_file_mode(variant, mode, script, "none", max) IN
         /\ download' = [called |-> TRUE, mode |-> mode, script |-> script,
                         max |-> max, val |-> d.val, file |-> d.file,
                         attempts |-> d.attempts]
         /\ lastOp' = "download"
         /\ UNCHANGED << variant, fs, args, result, trace, spawns, hist,
                         environ, overlay, obj, calls >>

NextPure == Construct \/ Download

SpecPure == InitPure /\ [][NextPure]_vars

(***************************************************************************)
(* run_command on an installed root, for every process environment and     *)
(* every env argument                                                      *)
(***************************************************************************)
\* the file system a successful install() leaves on a fresh root
InstalledFs ==
    [EmptyFs EXCEPT !.root = TRUE, !.extracted = "full", !.engine = "full",
                    !.exec = TRUE, !.resolv = TRUE, !.flag = TRUE]

InitEnv ==
    /\ variant \in Variants
    /\ fs = InstalledFs
    /\ lastOp = "none"
    /\ args = NoArgs
    /\ result = [exc |-> NoExc, ret |-> "", log |-> << >>]
    /\ trace = << >>
    /\ spawns = << >>
    /\ hist = "fresh"
    /\ environ \in EnvMaps
    /\ overlay = NoEnv
    /\ obj = construct(variant, Machine(EmptyFs), "x86_64").obj
    /\ download = NoDownload
    /\ calls = NoCalls

RunCommandEnv ==
    \E c \in Commands, env \in Overlays :
        \E m \in run_command(variant, Machine(fs), c, Omitted, env) :
            Commit("run", [command |-> c, wd |-> Omitted, env |-> env], m)

NextEnv == RunCommandEnv

SpecEnv == InitEnv /\ [][NextEnv]_vars

(***************************************************************************)
(* Several callers inside run_command() at once, on a root that has the    *)
(* flag.  A caller takes the statements of run_command one at a time: the  *)
(* look at the flag, the start of the engine process, and the return once  *)
(* the process has ended; the statements of different callers interleave   *)
(* in every order, and every statement works on the file system as it is   *)
(* when the statement runs.                                                *)
(***************************************************************************)
InitConc ==
    /\ variant \in Variants
    /\ fs \in { InstalledFs } \cup
              ( IF variant = "direct"
                THEN { [InstalledFs EXCEPT !.resolv = FALSE] }
                ELSE { } )
    /\ lastOp = "none"
    /\ args = NoArgs
    /\ result = [exc |-> NoExc, ret |-> "", log |-> << >>]
    /\ trace = << >>
    /\ spawns = << >>
    /\ hist = "fresh"
    /\ environ = HostEnviron
    /\ overlay = NoEnv
    /\ obj = construct(variant, Machine(EmptyFs), "x86_64").obj
    /\ download = NoDownload
    /\ calls = NoCalls

\* caller t calls run_command(c)
Enter(t) ==
    /\ calls[t].pc = "idle"
    /\ \E c \in Commands :
         calls' = [calls EXCEPT ![t] = [pc |-> "entered", command |-> c,
                                        m |-> Machine(fs)]]
    /\ UNCHANGED << variant, fs, lastOp, args, result, trace, spawns, hist,
                    environ, overlay, obj, download >>

\* if not os.path.exists(self.installed_flag): raise / self.install()
CheckFlag(t) ==
    /\ calls[t].pc = "entered"
    /\ \E m \in run_command_check(variant, [calls[t].m EXCEPT !.fs = fs], NoEnv) :
         /\ fs' = m.fs
         /\ calls' = [calls EXCEPT ![t].m = m,
                                   ![t].pc = IF Failed(m) THEN "raised" ELSE "checked"]
    /\ UNCHANGED << variant, lastOp, args, result, trace, spawns, hist,
                    environ, overlay, obj, download >>

\* subprocess.run(full_cmd, ...): the engine process of caller t starts and
\* runs while the other callers go on
Launch(t) ==
    /\ calls[t].pc = "checked"
    /\ \E r \in run_command_launch(variant, [calls[t].m EXCEPT !.fs = fs],
                                   calls[t].command, Omitted, NoEnv) :
         /\ fs' = r.fs
         /\ calls' = [calls EXCEPT ![t].m = r, ![t].pc = "running"]
    /\ UNCHANGED << variant, lastOp, args, result, trace, spawns, hist,
                    environ, overlay, obj, download >>

\* the process of caller t has ended (or the call has raised before):
\* run_command returns or raises to caller t
Return(t) ==
    /\ calls[t].pc \in {"running", "raised"}
    /\ Publish("run", [command |-> calls[t].command, wd |-> Omitted, env |-> NoEnv],
               [calls[t].m EXCEPT !.fs = fs])
    /\ calls' = [calls EXCEPT ![t] = Idle]
    /\ UNCHANGED << variant, obj, download >>

NextConc ==
    \E t \in Callers : Enter(t) \/ CheckFlag(t) \/ Launch(t) \/ Return(t)

SpecConc == InitConc /\ [][NextConc]_vars

(***************************************************************************)
(* Helpers of the properties                                               *)
(***************************************************************************)
Has(tr, e) == \E i \in 1..Len(tr) : tr[i] = e
Count(tr, e) == Cardinality({ i \in 1..Len(tr) : tr[i] = e })

NotInstalledExc == Exc("RuntimeError", "FreeRoot is not installed. Run install() first.")

\* the install state of a complete installation
InstalledState ==
    [root |-> TRUE, extracted |-> "full", engine |-> "full", exec |-> TRUE,
     resolv |-> TRUE, flag |-> TRUE]

\* extraction and configuration are complete
Complete(f) == f.extracted = "full" /\ f.engine = "full" /\ f.exec /\ f.resolv

\* a step of the last install() failed: it raised, or its failure was only
\* printed as a warning
StepFailed == result.exc # NoExc \/ Has(trace, "warning")

(***************************************************************************)
(* C1: in every state reached by calls of install, run_command,            *)
(* clone_repo, start_shell and cleanup, the .installed flag exists if and  *)
(* only if the archive is extracted, the engine is present and executable  *)
(* and etc/resolv.conf is written.                                         *)
(* Fails in direct_use_freeroot.py.                                        *)
(***************************************************************************)
C1_FlagIffComplete == fs.flag <=> Complete(fs)

(***************************************************************************)
(* C2: when a step of an install() entered without the flag fails, then on *)
(* return neither the root directory nor the flag exists and the failure   *)
(* has been raised to the caller.                                          *)
(* Fails in direct_use_freeroot.py.                                        *)
(***************************************************************************)
C2_FailedInstallLeavesNothing ==
    (lastOp = "install" /\ StepFailed)
        => (result.exc # NoExc /\ ~fs.root /\ ~fs.flag)

(***************************************************************************)
(* C3: with the flag present install() downloads nothing, extracts nothing *)
(* and writes nothing, and leaves the root unchanged; while the flag is    *)
(* present no call performs download or extraction work; and the flag      *)
(* disappears only through cleanup().                                      *)
(***************************************************************************)
C3_InstallIdempotent ==
    [][ /\ (fs.flag /\ lastOp' = "install")
            => (fs' = fs /\ trace' = << "install" >> /\ result'.exc = NoExc)
        /\ fs.flag
            => (~Has(trace', "fetch_archive") /\ ~Has(trace', "fetch_engine")
                /\ ~Has(trace', "extract"))
        /\ (fs.flag /\ ~fs'.flag) => lastOp' = "cleanup" ]_vars

\* a second install() has returned at once on an installed root
C3_Witness ==
    lastOp = "install" /\ fs.flag /\ trace = << "install" >>

(***************************************************************************)
(* C4: an install() entered without the flag (on a fresh root, after a     *)
(* cleanup() or after a failed install()) whose steps all succeed performs *)
(* each of archive fetch, extraction, engine fetch, chmod, resolv.conf     *)
(* write and flag write once, the flag write last, and ends in the one     *)
(* complete install state; a run_command() on a root rebuilt this way      *)
(* reaches the launch of the engine, which is present and executable.      *)
(***************************************************************************)
InstallSteps ==
    {"fetch_archive", "extract", "fetch_engine", "chmod", "write_resolv", "write_flag"}

C4_Reinstall ==
    [][ /\ (~fs.flag /\ lastOp' = "install" /\ result'.exc = NoExc
                /\ ~Has(trace', "warning"))
            => /\ InstallState(fs') = InstalledState
               /\ \A e \in InstallSteps : Count(trace', e) = 1
               /\ trace'[Len(trace')] = "write_flag"
               /\ ~Has(trace', "rmtree")
        /\ (hist = "rebuilt" /\ lastOp' = "run")
            => /\ InstallState(fs) = InstalledState
               /\ Len(spawns') = 1
               /\ ~Has(trace', "install")
               /\ result'.exc # NotInstalledExc ]_vars

\* a command has been launched on a root that was installed again after a
\* cleanup() or a failed install()
C4_Witness ==
    /\ hist = "rebuilt"
    /\ lastOp = "run"
    /\ Len(spawns) = 1
    /\ spawns[1].launched

(***************************************************************************)
(* C5: in freeroot.py, run_command(), clone_repo() and start_shell()       *)
(* called without the flag fail with the not-installed error, hand nothing *)
(* to subprocess.run, do not call install() and leave the file system as   *)
(* it was.                                                                 *)
(***************************************************************************)
C5_FailFast ==
    [][ (variant = "freeroot" /\ ~fs.flag /\ lastOp' \in {"run", "clone", "shell"})
            => /\ result'.exc = NotInstalledExc
               /\ spawns' = << >>
               /\ trace' = << >>
               /\ fs' = fs ]_vars

\* clone_repo() has failed with the not-installed error on a root that
\* holds no flag
C5_Witness ==
    /\ variant = "freeroot"
    /\ lastOp = "clone"
    /\ ~fs.flag
    /\ result.exc = NotInstalledExc

(***************************************************************************)
(* C6: in direct_use_freeroot.py, run_command(), clone_repo() and          *)
(* start_shell() called without the flag call install() exactly once and   *)
(* before anything is handed to subprocess.run; the engine is handed over  *)
(* only after that install() wrote the flag; called with the flag present  *)
(* they do not call install().                                             *)
(***************************************************************************)
C6_LazyInstall ==
    [][ (variant = "direct" /\ lastOp' \in {"run", "clone", "shell"})
            => /\ Count(trace', "install") = (IF fs.flag THEN 0 ELSE 1)
               /\ ~fs.flag => trace'[1] = "install"
               /\ \A i \in 1..Len(trace') :
                     trace'[i] = "spawn"
                        => /\ fs'.flag
                           /\ ~fs.flag =>
                                \E j \in 1..(i - 1) : trace'[j] = "write_flag" ]_vars

\* a run_command() without the flag has installed and then launched
C6_Witness ==
    /\ variant = "direct"
    /\ lastOp = "run"
    /\ Len(trace) > 1
    /\ trace[1] = "install"
    /\ trace[Len(trace)] = "spawn"
    /\ spawns[1].launched

(***************************************************************************)
(* C7: a run_command() that ends in failure leaves the install state       *)
(* (root directory, engine binary, resolv.conf, flag) as it was before the *)
(* call.                                                                   *)
(* Fails in direct_use_freeroot.py.                                        *)
(***************************************************************************)
C7_FailedRunKeepsInstallState ==
    [][ (lastOp' = "run" /\ result'.exc # NoExc)
            => InstallState(fs') = InstallState(fs) ]_vars

(***************************************************************************)
(* C8: run_command() returns normally exactly when the launched process    *)
(* exits with status 0, and then returns the captured standard output; for *)
(* a non-zero status c it raises the command-failed error with code c and  *)
(* the captured stderr, prints c, and returns nothing.                     *)
(***************************************************************************)
C8_ExitStatus ==
    lastOp = "run" =>
        /\ result.exc = NoExc
             <=> (Len(spawns) = 1 /\ spawns[1].launched /\ spawns[1].exit = 0)
        /\ \A i \in 1..Len(spawns) :
             spawns[i].launched =>
                IF spawns[i].exit = 0
                THEN result.ret = spawns[i].stdout /\ result.log = << >>
                ELSE /\ result.exc.type = "CalledProcessError"
                     /\ result.exc.code = spawns[i].exit
                     /\ result.exc.stderr = spawns[i].stderr
                     /\ result.log = << spawns[i].exit >>
                     /\ result.ret = ""

\* a process killed by a signal (negative status) made run_command() raise
C8_Witness ==
    /\ lastOp = "run"
    /\ fs.flag
    /\ Len(spawns) = 1
    /\ spawns[1].launched
    /\ spawns[1].exit < 0
    /\ spawns[1].stdout # ""
    /\ result.exc.code = spawns[1].exit

(***************************************************************************)
(* C9: every engine process launched by run_command() or start_shell()     *)
(* (clone_repo() launches through run_command()) gets the argument vector  *)
(* engine path, --rootfs=<root>, -0, -w <working dir, /root when none is   *)
(* given>, -b /dev, -b /sys, -b /proc,                                     *)
(* -b <root>/etc/resolv.conf:/etc/resolv.conf, --kill-on-exit, and then    *)
(* the command vector.                                                     *)
(***************************************************************************)
ExpectedWorkingDir ==
    IF lastOp = "run" /\ args.wd \notin {Omitted, PyNone}
    THEN args.wd
    ELSE PyStr("/root")

ExpectedPrefix ==
    << PyStr("/home/u/rootfs/usr/local/bin/proot"),
       PyStr("--rootfs=/home/u/rootfs"),
       PyStr("-0"),
       PyStr("-w"), ExpectedWorkingDir,
       PyStr("-b"), PyStr("/dev"),
       PyStr("-b"), PyStr("/sys"),
       PyStr("-b"), PyStr("/proc"),
       PyStr("-b"), PyStr("/home/u/rootfs/etc/resolv.conf:/etc/resolv.conf"),
       PyStr("--kill-on-exit") >>

C9_ArgumentVector ==
    \A i \in 1..Len(spawns) :
        spawns[i].launched =>
            /\ Len(spawns[i].argv) >= Len(ExpectedPrefix)
            /\ SubSeq(spawns[i].argv, 1, Len(ExpectedPrefix)) = ExpectedPrefix
            /\ lastOp = "shell" =>
                 spawns[i].argv = ExpectedPrefix \o << PyStr("bash") >>

\* a command was launched with a working directory given by the caller
C9_Witness ==
    /\ lastOp = "run"
    /\ args.wd = PyStr("/tmp")
    /\ Len(spawns) = 1
    /\ spawns[1].launched

(***************************************************************************)
(* C10: the command vector run_command() appends to the fixed arguments is *)
(* [bash, -c, s] for a command string s and v itself for an argument list  *)
(* v.                                                                      *)
(* Fails in direct_use_freeroot.py for an argument list.                   *)
(***************************************************************************)
CommandTail(argv) == SubSeq(argv, Len(ExpectedPrefix) + 1, Len(argv))

C10_CommandVector ==
    (lastOp = "run" /\ Len(spawns) = 1) =>
        CommandTail(spawns[1].argv) =
            IF args.command.t = "str"
            THEN << PyStr("bash"), PyStr("-c"), args.command >>
            ELSE StrList(args.command.l)


C20_TempFileRemoved ==
    (variant = "freeroot" /\ Has(trace, "fetch_archive")) => fs.temp = "none"

\* _extract_rootfs() was left by the failure of tar, after the download had
\* filled the temporary file
C20_Witness ==
    /\ variant = "freeroot"
    /\ lastOp = "install"
    /\ Has(trace, "extract")
    /\ result.exc.type = "CalledProcessError"
    /\ fs.temp = "none"


(***************************************************************************)
(* C16: on an installed root, when the shell launched by start_shell()     *)
(* exits with a non-zero status, start_shell() reports that exit code,     *)
(* returns normally and leaves the install state unchanged.                *)
(* Fails in direct_use_freeroot.py.                                        *)
(***************************************************************************)
C16_ShellExitReported ==
    [][ ( /\ fs.flag
          /\ lastOp' = "shell"
          /\ Len(spawns') = 1
          /\ spawns'[1].launched
          /\ spawns'[1].exit # 0 )
        => ( /\ result'.exc = NoExc
             /\ result'.log = << spawns'[1].exit >>
             /\ InstallState(fs') = InstallState(fs) ) ]_vars


(***************************************************************************)
(* C17: an install() that fails leaves the root path as it was before the  *)
(* call: every file that was in the root directory is still there and no   *)
(* file created by the failed attempt remains.                             *)
(* Fails in freeroot.py (files that were there are removed) and in         *)
(* direct_use_freeroot.py (created files remain).                          *)
(***************************************************************************)
C17_FailedInstallRestores ==
    [][ (lastOp' = "install" /\ ~fs.flag /\ result'.exc # NoExc)
        => fs' = fs ]_vars


(***************************************************************************)
(* C18: over every sequence of calls, install() downloads the engine only  *)
(* when no engine binary exists at usr/local/bin/proot: no call fetches    *)
(* the engine while a previously fetched engine binary is still present.   *)
(* Fails in direct_use_freeroot.py.                                        *)
(***************************************************************************)
C18_EngineFetchedOnlyIfAbsent ==
    [][ Has(trace', "fetch_engine") => fs.engine # "full" ]_vars


(***************************************************************************)
(* C19: on an installed root every clone_repo() first issues, through      *)
(* run_command(), the pre-check that makes sure a git client is present,   *)
(* and only afterwards the git clone command; when the pre-check fails,    *)
(* git clone is never launched and the failure is raised to the caller.    *)
(* Fails in direct_use_freeroot.py.                                        *)
(***************************************************************************)
IsGitCheck(s) ==
    CommandTail(s.argv) = << PyStr("bash"), PyStr("-c"), PyStr(git_check_cmd) >>

IsGitClone(s, command) ==
    CommandTail(s.argv) = << PyStr("bash"), PyStr("-c"), command >>

C19_GitPreCheck ==
    [][ (fs.flag /\ lastOp' = "clone")
        => /\ Len(spawns') >= 1
           /\ IsGitCheck(spawns'[1])
           /\ \A i \in 2..Len(spawns') :
                 /\ i = 2
                 /\ IsGitClone(spawns'[i], args'.command)
                 /\ spawns'[1].launched
                 /\ spawns'[1].exit = 0
           /\ (~spawns'[1].launched \/ spawns'[1].exit # 0)
                 => (Len(spawns') = 1 /\ result'.exc # NoExc) ]_vars


(***************************************************************************)
(* C15: constructing with machine value x86_64 succeeds with arch_alt      *)
(* amd64, with aarch64 succeeds with arch_alt arm64, and with any other    *)
(* machine value fails with the unsupported-architecture error; in all     *)
(* three cases neither the file system nor the network is touched.         *)
(***************************************************************************)
C15_Constructor ==
    lastOp = "construct" =>
        /\ obj.arch = "x86_64" =>
             (obj.built /\ obj.arch_alt = "amd64" /\ result.exc = NoExc)
        /\ obj.arch = "aarch64" =>
             (obj.built /\ obj.arch_alt = "arm64" /\ result.exc = NoExc)
        /\ obj.arch \notin {"x86_64", "aarch64"} =>
             /\ ~obj.built
             /\ result.exc = Exc("RuntimeError",
                                 "Unsupported CPU architecture: " \o obj.arch)
        /\ fs = EmptyFs
        /\ trace = << >>
        /\ spawns = << >>

\* the constructor has refused a machine value it does not support
C15_Witness ==
    /\ lastOp = "construct"
    /\ obj.arch = "armv7l"
    /\ result.exc.type = "RuntimeError"


(***************************************************************************)
(* C12: for every sequence of attempt outcomes (transport exception, empty *)
(* payload, non-empty payload) _download_file() makes at most max_retries  *)
(* attempts, makes none after the first successful one, and reports        *)
(* success if and only if one of the first max_retries attempts succeeded; *)
(* otherwise it reports failure (False / None).                            *)
(* Fails in direct_use_freeroot.py, through the empty payload of C13.      *)
(***************************************************************************)
ReportsSuccess(val) == val \in {"True", "data"}
ReportsFailure(val) == val \in {"False", "None"}

C12_DownloadRetries ==
    download.called =>
        /\ download.attempts <= download.max
        /\ \A i \in 1..(download.attempts - 1) : download.script[i] # "data"
        /\ ReportsSuccess(download.val)
             <=> \E i \in 1..download.max : download.script[i] = "data"
        /\ ~ReportsSuccess(download.val) => ReportsFailure(download.val)

(***************************************************************************)
(* C13: an attempt that ends without a transport error but with a          *)
(* zero-byte payload is a failed attempt: it is retried while attempts     *)
(* remain, and it is never reported as success.                            *)
(* Fails in direct_use_freeroot.py.                                        *)
(***************************************************************************)
C13_EmptyPayloadRetried ==
    download.called =>
        \A i \in 1..download.attempts :
            download.script[i] = "empty" =>
                /\ i < download.max => download.attempts > i
                /\ i = download.attempts => ~ReportsSuccess(download.val)


(***************************************************************************)
(* C14: for every inherited environment E and overlay O, the environment   *)
(* given to the process run_command() launches maps each key of O to O's   *)
(* value and each key of E not in O to E's value and has no other keys;    *)
(* os.environ and the overlay mapping are unchanged by the call.           *)
(***************************************************************************)
C14_EnvironmentOverlay ==
    [][ (lastOp' = "run" /\ Len(spawns') >= 1)
        => LET child == spawns'[Len(spawns')].env
               O == args'.env.d
               E == environ
           IN  /\ DOMAIN child = DOMAIN E \cup DOMAIN O
               /\ \A k \in DOMAIN O : child[k] = O[k]
               /\ \A k \in DOMAIN E \ DOMAIN O : child[k] = E[k]
               /\ environ' = environ
               /\ overlay' = args'.env ]_vars

\* a launched process got an environment in which the overlay has overridden
\* one inherited variable and left the other
C14_Witness ==
    /\ lastOp = "run"
    /\ Len(spawns) = 1
    /\ spawns[1].launched
    /\ environ = [k \in {"HOME", "PATH"} |-> "/a"]
    /\ args.env = EnvDict([k \in {"PATH"} |-> "/b"])
    /\ spawns[1].env = [k \in {"HOME", "PATH"} |-> IF k = "PATH" THEN "/b" ELSE "/a"]


====
